---- MODULE Spec2Model ----
(***************************************************************************)
(* A model of cachet (src/cachet/cache.py): GenericCache and its three     *)
(* backends DictCache, IOCache and SqliteCache, and the wrapper `returned` *)
(* that decorator_constructor builds around a callable.                    *)
(*                                                                         *)
(* Storage media.  `media` maps every place entries can live to the table  *)
(* held there:                                                             *)
(*   <<"kv", "DictCache">>  the class attribute DictCache.kv, one dict     *)
(*                      shared by every DictCache instance of the process; *)
(*   <<"dir", tmpdir>>  the files of directory tmpdir, by file name;       *)
(*   <<"db", path>>     table kv of the sqlite database file at path;      *)
(*   <<"mem", s>>       table kv of the private :memory: database of the   *)
(*                      connection store s holds.                          *)
(*                                                                         *)
(* Python values are tagged tuples (<<"int", 3>>, <<"NoneType", 0>>), so   *)
(* that None differs from every integer.  pickle, gzip, utf8 and blake2b   *)
(* are free constructors: a digest is the tuple of what was hashed, hence  *)
(* two digests are equal iff salt and data are (no collisions).            *)
(***************************************************************************)
EXTENDS Integers, Sequences, FiniteSets, TLC

\* ---------------------------------------------------------------- bounds
MaxTime == 2    \* the clock reads 0..MaxTime
MaxOps == 3     \* get attempts on the store
EqMaxOps == 4   \* wrapped calls in the run of the three backends side by side
TwoMaxOps == 2  \* get attempts on the two stores of one backend together

VARIABLES
    now,        \* time.time()
    media,      \* place -> table of physically present entries
    cfg,        \* store -> [backend, ttl, tmpdir, in_memory, ident]
    salt,       \* store -> GenericCache._salt
    memo,       \* store -> the lru_cache of args_to_key for that instance
    hits,       \* store -> GenericCache._hits
    misses,     \* store -> GenericCache._misses
    expires,    \* store -> GenericCache._expires
    lookups,    \* store -> number of get attempts made so far (history)
    last,       \* store -> what the latest operation did there (history)
    run,        \* the current run of same-argument wrapped calls (history)
    callers     \* caller -> how far its wrapped call has got, for callers whose
                \* calls interleave

vars == <<now, media, cfg, salt, memo, hits, misses, expires, lookups, last, run, callers>>

\* ------------------------------------------------------- program constants
DEFAULT_DIR == "/tmp"

PyNone == <<"NoneType", 0>>
PyInt(n) == <<"int", n>>

CacheMissException == "CacheMissException"
DontCacheException == "DontCacheException"
ExpiredKeyException == "ExpiredKeyException"
\* Any other failure of the wrapped function.
OtherException == "ValueError"
\* What the storage media raise on their own.
KeyError == "KeyError"
FileNotFoundError == "FileNotFoundError"
NoException == "none"

\* ------------------------------------------------------------ conversions
Pickle(v) == <<"pickle", v>>
Unpickle(p) == p[2]
Gzip(b) == <<"gzip", b>>
Gunzip(z) == z[2]
Utf8(str) == <<"utf8", str>>
EmptySalt == <<>>

\* hashlib.blake2b(data, digest_size=8, salt=salt).hexdigest()
blake2b(data, slt) == <<"blake2b", slt, data>>

\* The (args, kwargs) of a call: args a tuple of integers, kwargs a tuple of
\* <<name, value>> pairs.
Positional(n) == <<<<n>>, <<>>>>
Keywords(ident) == <<<<>>, <<<<"module", ident[1]>>, <<"qualname", ident[2]>>>>>>

\* --------------------------------------------------------- key derivation
\* args_to_key without its memo.
HashArgs(slt, a) == blake2b(Pickle(a), slt)

\* args_to_key under functools.lru_cache: the memo of instance s answers first.
args_to_key(s, a) ==
    IF a \in DOMAIN memo[s] THEN memo[s][a] ELSE HashArgs(salt[s], a)

\* The memo after args_to_key(s, a).
MemoAfter(s, a) ==
    IF a \in DOMAIN memo[s] THEN memo[s] ELSE (a :> HashArgs(salt[s], a)) @@ memo[s]

\* IOCache.key_to_filename: tmpdir '/' ('' '.' 'cache' '.' key '.' 'gz')
key_to_filename(s, key) == <<cfg[s].tmpdir, <<"", "cache", key, "gz">>>>

\* ------------------------------------------------------- outcomes of a call
Returned(v) == [exc |-> NoException, value |-> v]
Raised(e) == [exc |-> e, value |-> PyNone]

\* A table without the entry named n.
Without(tbl, n) == [m \in DOMAIN tbl \ {n} |-> tbl[m]]

\* -------------------------------------------------------------- DictCache
\* DictCache._getitem with the comparison turned round.
DictCache_getitem_reversed(tbl, key, t) ==
    IF key \notin DOMAIN tbl THEN Raised(CacheMissException)
    ELSE IF tbl[key][2] > t THEN Raised(ExpiredKeyException)
    ELSE Returned(Unpickle(tbl[key][1]))

\* kv maps key -> (pickled value, expiration).
DictCache_getitem(tbl, key, t) ==
    IF key \notin DOMAIN tbl THEN Raised(CacheMissException)
    ELSE LET value == tbl[key][1]
             expiration == tbl[key][2]
         IN  IF expiration < t THEN Raised(ExpiredKeyException)
             ELSE Returned(Unpickle(value))

DictCache_delitem(tbl, key) ==
    IF key \in DOMAIN tbl THEN [exc |-> NoException, tbl |-> Without(tbl, key)]
    ELSE [exc |-> KeyError, tbl |-> tbl]

DictCache_iter(tbl) == {<<key, Unpickle(tbl[key][1])>> : key \in DOMAIN tbl}

DictCache_len(tbl) == Cardinality(DOMAIN tbl)

DictCache_setitem(tbl, key, value, expiration) ==
    (key :> <<Pickle(value), expiration>>) @@ tbl

\* ---------------------------------------------------------------- IOCache
\* The directory maps file name -> gzip(pickle((value, expiration))).
\* glob.glob(tmpdir + '/.cache.*.gz')
GlobCacheFiles(s, tbl) ==
    {f \in DOMAIN tbl : /\ Len(f) = 2
                        /\ f[1] = cfg[s].tmpdir
                        /\ Len(f[2]) = 4
                        /\ f[2][1] = "" /\ f[2][2] = "cache" /\ f[2][4] = "gz"}

IOCache_getitem(s, tbl, key, t) ==
    LET filename == key_to_filename(s, key)
    IN  IF filename \notin DOMAIN tbl THEN Raised(CacheMissException)
        ELSE LET loaded == Unpickle(Gunzip(tbl[filename]))
                 value == loaded[1]
                 expiration == loaded[2]
             IN  IF expiration < t THEN Raised(ExpiredKeyException)
                 ELSE Returned(value)

\* os.remove(filename): the argument is used as a path, as it is.
IOCache_delitem(tbl, filename) ==
    IF filename \in DOMAIN tbl
    THEN [exc |-> NoException, tbl |-> Without(tbl, filename)]
    ELSE [exc |-> FileNotFoundError, tbl |-> tbl]

IOCache_iter(s, tbl) ==
    {<<filename, Unpickle(Gunzip(tbl[filename]))[1]>> : filename \in GlobCacheFiles(s, tbl)}

IOCache_len(s, tbl) == Cardinality(GlobCacheFiles(s, tbl))

IOCache_setitem(s, tbl, key, value, expiration) ==
    (key_to_filename(s, key) :> Gzip(Pickle(<<value, expiration>>))) @@ tbl

\* ------------------------------------------------------------ SqliteCache
\* SqliteCache._getitem deciding liveness as CONTAINS_SQL does (e > now).
SqliteCache_getitem_strict(tbl, key, t) ==
    IF key \notin DOMAIN tbl THEN Raised(CacheMissException)
    ELSE IF tbl[key][2] <= t THEN Raised(ExpiredKeyException)
    ELSE Returned(Unpickle(tbl[key][1]))

\* Table kv (k TEXT PRIMARY KEY, v BLOB, e FLOAT) maps k -> (v, e).
SqliteCache_getitem(tbl, key, t) ==
    IF key \notin DOMAIN tbl THEN Raised(CacheMissException)
    ELSE LET value == tbl[key][1]
             expiration == tbl[key][2]
         IN  IF expiration < t THEN Raised(ExpiredKeyException)
             ELSE Returned(Unpickle(value))

\* DELETE FROM kv WHERE (k = ?)
SqliteCache_delitem(tbl, key) ==
    [exc |-> NoException,
     tbl |-> IF key \in DOMAIN tbl THEN Without(tbl, key) ELSE tbl]

SqliteCache_iter(tbl) == {<<key, Unpickle(tbl[key][1])>> : key \in DOMAIN tbl}

\* LEN_SQL with the filter of CONTAINS_SQL: the unexpired rows only.
SqliteCache_len_live(tbl) == Cardinality({k \in DOMAIN tbl : tbl[k][2] > now})

\* SELECT COUNT(*) FROM kv
SqliteCache_len(tbl) == Cardinality(DOMAIN tbl)

\* SET_SQL as INSERT OR IGNORE: a row that is there stays as it is.
SqliteCache_setitem_ignore(tbl, key, value, expiration) ==
    tbl @@ (key :> <<Pickle(value), expiration>>)

\* INSERT OR REPLACE INTO kv (k, v, e) VALUES (?, ?, ?)
SqliteCache_setitem(tbl, key, value, expiration) ==
    (key :> <<Pickle(value), expiration>>) @@ tbl

\* SqliteCache.filename, '.cache.sqlite', by its dotted parts.
SqliteCache_filename == <<"", "cache", "sqlite">>

\* sqlite3's name for a private database held in memory.
MEMORY == <<":memory:">>

\* SqliteCache.__init__ without the in_memory switch.
db_path_on_disk(s) == <<cfg[s].tmpdir, SqliteCache_filename>>

\* SqliteCache.__init__: db_path
db_path(s) ==
    IF cfg[s].in_memory THEN MEMORY ELSE <<cfg[s].tmpdir, SqliteCache_filename>>

\* ----------------------------------------------- dispatch on the backend
\* Where the entries of store s live.
Place(s) ==
    CASE cfg[s].backend = "DictCache" -> <<"kv", "DictCache">>
      [] cfg[s].backend = "IOCache" -> <<"dir", cfg[s].tmpdir>>
      [] cfg[s].backend = "SqliteCache" ->
            IF db_path(s) = MEMORY THEN <<"mem", s>> ELSE <<"db", db_path(s)>>

getitem(s, tbl, key, t) ==
    CASE cfg[s].backend = "DictCache" -> DictCache_getitem(tbl, key, t)
      [] cfg[s].backend = "IOCache" -> IOCache_getitem(s, tbl, key, t)
      [] cfg[s].backend = "SqliteCache" -> SqliteCache_getitem(tbl, key, t)

delitem(s, tbl, name) ==
    CASE cfg[s].backend = "DictCache" -> DictCache_delitem(tbl, name)
      [] cfg[s].backend = "IOCache" -> IOCache_delitem(tbl, name)
      [] cfg[s].backend = "SqliteCache" -> SqliteCache_delitem(tbl, name)

iter(s, tbl) ==
    CASE cfg[s].backend = "DictCache" -> DictCache_iter(tbl)
      [] cfg[s].backend = "IOCache" -> IOCache_iter(s, tbl)
      [] cfg[s].backend = "SqliteCache" -> SqliteCache_iter(tbl)

len(s, tbl) ==
    CASE cfg[s].backend = "DictCache" -> DictCache_len(tbl)
      [] cfg[s].backend = "IOCache" -> IOCache_len(s, tbl)
      [] cfg[s].backend = "SqliteCache" -> SqliteCache_len(tbl)

\* GenericCache.expiration without the ttl.
expiration_without_ttl(s, t) == t

\* GenericCache.expiration at clock reading t
expiration(s, t) == t + cfg[s].ttl

setitem(s, tbl, key, value, t) ==
    CASE cfg[s].backend = "DictCache" ->
            DictCache_setitem(tbl, key, value, expiration(s, t))
      [] cfg[s].backend = "IOCache" ->
            IOCache_setitem(s, tbl, key, value, expiration(s, t))
      [] cfg[s].backend = "SqliteCache" ->
            SqliteCache_setitem(tbl, key, value, expiration(s, t))

\* GenericCache.bust: delete every first component iterate() yields, over a
\* snapshot of the iteration; the first failing delete ends the loop.
RECURSIVE BustLoop(_, _, _)
BustLoop(s, tbl, todo) ==
    IF todo = {} THEN [exc |-> NoException, tbl |-> tbl]
    ELSE LET k == CHOOSE x \in todo : TRUE
             d == delitem(s, tbl, k)
         IN  IF d.exc # NoException THEN d
             ELSE BustLoop(s, d.tbl, todo \ {k})

\* bust over the live entries only.
bust_live_only(s, tbl) ==
    BustLoop(s, tbl, {p[1] : p \in {q \in iter(s, tbl) :
        IF cfg[s].backend = "IOCache"
        THEN Unpickle(Gunzip(tbl[q[1]]))[2] >= now
        ELSE tbl[q[1]][2] >= now}})

bust(s, tbl) == BustLoop(s, tbl, {p[1] : p \in iter(s, tbl)})

\* ------------------------------------------------------------ GenericCache
\* The digest __init__ takes of (module, qualname) while _salt is still b''.
IdentityDigest(ident) == HashArgs(EmptySalt, Keywords(ident))

\* __init__ hashing nothing of the callable into the salt.
InitSalt_anonymous(ident) == Utf8(HashArgs(EmptySalt, <<<<>>, <<>>>>))

\* GenericCache.__init__: self._salt = bytes(_salt, 'utf8')
InitSalt(ident) == Utf8(IdentityDigest(ident))

\* The lru_cache entry the call of args_to_key in __init__ leaves behind.
InitMemo(ident) == Keywords(ident) :> IdentityDigest(ident)

\* GenericCache.__getitem__ counting an expiry as a miss too.
GenericCache_getitem_miscounts(s, tbl, key, t) ==
    LET got == getitem(s, tbl, key, t)
    IN  [got |-> got,
         hits |-> IF got.exc = NoException THEN hits[s] + 1 ELSE hits[s],
         misses |-> IF got.exc # NoException THEN misses[s] + 1 ELSE misses[s],
         expires |-> IF got.exc = ExpiredKeyException THEN expires[s] + 1 ELSE expires[s]]

\* GenericCache.__getitem__: the backend's answer and the three counters after it.
GenericCache_getitem(s, tbl, key, t) ==
    LET got == getitem(s, tbl, key, t)
    IN  [got |-> got,
         hits |-> IF got.exc = NoException THEN hits[s] + 1 ELSE hits[s],
         misses |-> IF got.exc = CacheMissException THEN misses[s] + 1 ELSE misses[s],
         expires |-> IF got.exc = ExpiredKeyException THEN expires[s] + 1 ELSE expires[s]]

\* GenericCache.__contains__
contains(got) == got.exc = NoException

\* GenericCache.info
info(s, tbl) ==
    [expires |-> expires[s], hits |-> hits[s], misses |-> misses[s],
     salt |-> salt[s], size |-> len(s, tbl)]

\* ------------------------------------------------------------ the wrapper
\* returned with the set outside the inner try: an opt-out is stored as None.
returned_stores_opt_out(s, tbl, a, f, t, tset) ==
    LET key == args_to_key(s, a)
        g == GenericCache_getitem(s, tbl, key, t)
    IN  IF g.got.exc = NoException
        THEN [g |-> g, tbl |-> tbl, invoked |-> 0,
              result |-> g.got.value, raised |-> NoException]
        ELSE IF f.exc = NoException
        THEN [g |-> g, tbl |-> setitem(s, tbl, key, f.value, tset), invoked |-> 1,
              result |-> f.value, raised |-> NoException]
        ELSE IF f.exc = DontCacheException
        THEN [g |-> g, tbl |-> setitem(s, tbl, key, PyNone, tset), invoked |-> 1,
              result |-> PyNone, raised |-> NoException]
        ELSE [g |-> g, tbl |-> tbl, invoked |-> 1,
              result |-> PyNone, raised |-> f.exc]

\* returned with `except Exception` in place of `except DontCacheException`.
returned_swallows_all(s, tbl, a, f, t, tset) ==
    LET key == args_to_key(s, a)
        g == GenericCache_getitem(s, tbl, key, t)
    IN  IF g.got.exc = NoException
        THEN [g |-> g, tbl |-> tbl, invoked |-> 0,
              result |-> g.got.value, raised |-> NoException]
        ELSE IF f.exc = NoException
        THEN [g |-> g, tbl |-> setitem(s, tbl, key, f.value, tset), invoked |-> 1,
              result |-> f.value, raised |-> NoException]
        ELSE [g |-> g, tbl |-> tbl, invoked |-> 1,
              result |-> PyNone, raised |-> NoException]

\* decorator_constructor.decorator.returned, called with (args, kwargs) = a
\* when the clock reads t; f is what function(*args, **kwargs) does if it is
\* invoked, and tset what the clock reads when the result is stored.
returned(s, tbl, a, f, t, tset) ==
    LET key == args_to_key(s, a)
        g == GenericCache_getitem(s, tbl, key, t)
    IN  IF g.got.exc = NoException
        THEN [g |-> g, tbl |-> tbl, invoked |-> 0,
              result |-> g.got.value, raised |-> NoException]
        ELSE IF f.exc = NoException
        THEN [g |-> g, tbl |-> setitem(s, tbl, key, f.value, tset), invoked |-> 1,
              result |-> f.value, raised |-> NoException]
        ELSE IF f.exc = DontCacheException
        THEN [g |-> g, tbl |-> tbl, invoked |-> 1,
              result |-> PyNone, raised |-> NoException]
        ELSE [g |-> g, tbl |-> tbl, invoked |-> 1,
              result |-> PyNone, raised |-> f.exc]

\* ------------------------------------------------------------ environment
Stores == DOMAIN cfg

\* The callables that get wrapped, by (module name, qualified name).
Identities == {<<"tests", "add_one_function">>, <<"tests", "non_deterministic_function">>}

\* What callers pass: one positional integer.
Arguments == {1, 2}
EqArguments == {1, 2, 3}

\* What the wrapped function may do when invoked with a: return n + 1 (as
\* add_one_function), return something else (as non_deterministic_function),
\* opt out, or fail.
FunctionOutcomes(a) ==
    {Returned(PyInt(a[1][1] + 1)), Returned(PyInt(0)),
     Raised(DontCacheException), Raised(OtherException)}

\* The wrapped function is not reached (the lookup succeeded).
NotInvoked == Raised("not invoked")

Attempts(s) == hits[s] + misses[s] + expires[s]

\* info()['size']
Size(s) == len(s, media[Place(s)])

\* list(cache)
Iterate(s) == iter(s, media[Place(s)])

\* The physically present entry under key in the table of s, as <<value, expiration>>.
Present(s, tbl, key) ==
    IF cfg[s].backend = "IOCache" THEN key_to_filename(s, key) \in DOMAIN tbl
    ELSE key \in DOMAIN tbl

EntryOf(s, tbl, key) ==
    IF cfg[s].backend = "IOCache"
    THEN Unpickle(Gunzip(tbl[key_to_filename(s, key)]))
    ELSE <<Unpickle(tbl[key][1]), tbl[key][2]>>

\* The names iterate() yields for entries whose expiration is behind the clock.
StaleNames(s) ==
    {p[1] : p \in {q \in Iterate(s) :
        IF cfg[s].backend = "IOCache"
        THEN Unpickle(Gunzip(media[Place(s)][q[1]]))[2] < now
        ELSE media[Place(s)][q[1]][2] < now}}

\* os.listdir(dir): the cache files IOCache stores wrote there and the
\* database files SqliteCache stores created there at construction.
DirectoryListing(dir) ==
    DOMAIN media[<<"dir", dir>>]
        \cup {db_path(s) : s \in {x \in Stores : /\ cfg[x].backend = "SqliteCache"
                                                 /\ db_path(x) # MEMORY
                                                 /\ db_path(x)[1] = dir}}

\* ---------------------------------------------------------------- history
Idle ==
    [op |-> "none", a |-> <<>>, name |-> <<>>, got |-> "none", f |-> "none",
     fvalue |-> PyNone, result |-> PyNone, raised |-> NoException, invoked |-> 0,
     count |-> 0, stale |-> 0]

NoRun == [s |-> 0, a |-> <<>>, first |-> PyNone, e |-> 0, invoked |-> 0]

Only(s, rec) == [x \in Stores |-> IF x = s THEN rec ELSE Idle]

\* The record of a get attempt on key.
GetRecord(op, a, key, g) ==
    [Idle EXCEPT !.op = op, !.a = a, !.name = key, !.got = g.got.exc,
                 !.result = g.got.value]

\* The run of wrapped calls after a call of s with a that did r.
RunAfter(s, a, f, t, tset, r) ==
    IF run.s = s /\ run.a = a /\ t < run.e
    THEN [run EXCEPT !.invoked = @ + r.invoked]
    ELSE IF r.invoked = 1 /\ f.exc = NoException
    THEN [s |-> s, a |-> a, first |-> r.result, e |-> expiration(s, tset), invoked |-> 1]
    ELSE NoRun

\* ------------------------------------------------------------------- Init
Backends == {"DictCache", "IOCache", "SqliteCache"}

\* cache_class(function, ttl=..., tmpdir=..., in_memory=...)
StoreConfig(b, ttl, mem, ident) ==
    [backend |-> b, ttl |-> ttl, tmpdir |-> DEFAULT_DIR, in_memory |-> mem, ident |-> ident]

\* The ttl a store is configured with: 0 (nothing is ever live after the
\* clock reading of its set) or 1 (a window of one clock reading).
TTLs == {0, 1}

Places(c) ==
    {<<"kv", "DictCache">>, <<"dir", DEFAULT_DIR>>, <<"db", <<DEFAULT_DIR, SqliteCache_filename>>>>}
        \cup {<<"mem", s>> : s \in DOMAIN c}

\* The state right after the stores of c are constructed, in an empty tmpdir,
\* with the calls of cs under way.
ConstructedWith(c, cs) ==
    /\ cfg = c
    /\ now = 0
    /\ media = [p \in Places(c) |-> <<>>]
    /\ salt = [s \in DOMAIN c |-> InitSalt(c[s].ident)]
    /\ memo = [s \in DOMAIN c |-> InitMemo(c[s].ident)]
    /\ hits = [s \in DOMAIN c |-> 0]
    /\ misses = [s \in DOMAIN c |-> 0]
    /\ expires = [s \in DOMAIN c |-> 0]
    /\ lookups = [s \in DOMAIN c |-> 0]
    /\ last = [s \in DOMAIN c |-> Idle]
    /\ run = NoRun
    /\ callers = cs

\* The same when every call runs from start to end on its own.
Constructed(c) == ConstructedWith(c, <<>>)

\* One callable wrapped with any of the three backends and any ttl.
Init ==
    \E b \in Backends, ttl \in TTLs, ident \in Identities :
        /\ ident = <<"tests", "add_one_function">>
        /\ Constructed(1 :> StoreConfig(b, ttl, FALSE, ident))

\* One callable wrapped with sqlite_cache(in_memory=True), in an empty tmpdir.
InitMem ==
    \E ttl \in TTLs :
        Constructed(1 :> StoreConfig("SqliteCache", ttl, TRUE, <<"tests", "add_one_function">>))

\* ---------------------------------------------------------------- actions
\* The clock advances.
Tick ==
    /\ now < MaxTime
    /\ now' = now + 1
    /\ last' = [s \in Stores |-> Idle]
    /\ UNCHANGED <<media, cfg, salt, memo, hits, misses, expires, lookups, run, callers>>

\* The stores of S (no two at one place) each take the wrapped call
\* returned(*a) at clock reading now; where the function is invoked it does f
\* and the clock reads now + d when its result is stored.
Calls(S, a, f, d) ==
    /\ now + d <= MaxTime
    /\ \E R \in {[s \in S |-> returned(s, media[Place(s)], a, f, now, now + d)]} :
        LET ran == \E s \in S : R[s].invoked = 1 IN
            \* a function that is not invoked does nothing and takes no time
            /\ ~ran => (d = 0 /\ f = NotInvoked)
            /\ ran => f # NotInvoked
            /\ media' = [p \in DOMAIN media |->
                            IF \E s \in S : Place(s) = p
                            THEN R[CHOOSE s \in S : Place(s) = p].tbl
                            ELSE media[p]]
            /\ memo' = [s \in Stores |-> IF s \in S THEN MemoAfter(s, a) ELSE memo[s]]
            /\ hits' = [s \in Stores |-> IF s \in S THEN R[s].g.hits ELSE hits[s]]
            /\ misses' = [s \in Stores |-> IF s \in S THEN R[s].g.misses ELSE misses[s]]
            /\ expires' = [s \in Stores |-> IF s \in S THEN R[s].g.expires ELSE expires[s]]
            /\ lookups' = [s \in Stores |-> IF s \in S THEN lookups[s] + 1 ELSE lookups[s]]
            /\ now' = IF ran THEN now + d ELSE now
            /\ last' = [s \in Stores |->
                            IF s \in S
                            THEN [GetRecord("call", a, args_to_key(s, a), R[s].g)
                                    EXCEPT !.f = IF R[s].invoked = 1 THEN f.exc ELSE "none",
                                           !.fvalue = IF R[s].invoked = 1 THEN f.value ELSE PyNone,
                                           !.result = R[s].result,
                                           !.raised = R[s].raised,
                                           !.invoked = R[s].invoked]
                            ELSE Idle]
            /\ run' = IF Cardinality(S) = 1
                      THEN LET s == CHOOSE x \in S : TRUE IN RunAfter(s, a, f, now, now + d, R[s])
                      ELSE NoRun
            /\ UNCHANGED <<cfg, salt, callers>>

\* One wrapped call.
Call(s, a, f, d) ==
    /\ lookups[s] < MaxOps
    /\ Calls({s}, a, f, d)

\* The same wrapped call on every store, at the same clock readings.
CallAll(a, f, d) ==
    /\ \A s \in Stores : lookups[s] < EqMaxOps
    /\ Calls(Stores, a, f, d)

\* `n in cache`: GenericCache.__contains__(n)
Probe(s, n) ==
    /\ lookups[s] < MaxOps
    /\ \E g \in {GenericCache_getitem(s, media[Place(s)], args_to_key(s, Positional(n)), now)} :
        /\ memo' = [memo EXCEPT ![s] = MemoAfter(s, Positional(n))]
        /\ hits' = [hits EXCEPT ![s] = g.hits]
        /\ misses' = [misses EXCEPT ![s] = g.misses]
        /\ expires' = [expires EXCEPT ![s] = g.expires]
        /\ lookups' = [lookups EXCEPT ![s] = @ + 1]
        /\ last' = Only(s, [GetRecord("probe", Positional(n), args_to_key(s, Positional(n)), g)
                                EXCEPT !.result = <<"bool", contains(g.got)>>])
        /\ run' = NoRun
        /\ UNCHANGED <<now, media, cfg, salt, callers>>

\* The names a caller has at hand for `del cache[name]`: the keys args_to_key
\* has produced for this store and the first components iterate() yields.
Names(s) ==
    {memo[s][a] : a \in DOMAIN memo[s]} \cup {p[1] : p \in iter(s, media[Place(s)])}

\* `del cache[name]`
Delete(s, name) ==
    \E d \in {delitem(s, media[Place(s)], name)} :
        /\ media' = [media EXCEPT ![Place(s)] = d.tbl]
        /\ last' = Only(s, [Idle EXCEPT !.op = "delete", !.name = name, !.raised = d.exc])
        /\ run' = NoRun
        /\ UNCHANGED <<now, cfg, salt, memo, hits, misses, expires, lookups, callers>>

\* bust() as a full reset: the statistics start over as well.
Bust_resets(s) ==
    \E b \in {bust(s, media[Place(s)])} :
        /\ media' = [media EXCEPT ![Place(s)] = b.tbl]
        /\ hits' = [hits EXCEPT ![s] = 0]
        /\ misses' = [misses EXCEPT ![s] = 0]
        /\ expires' = [expires EXCEPT ![s] = 0]
        /\ last' = Only(s, [Idle EXCEPT !.op = "bust", !.raised = b.exc,
                                        !.count = Cardinality(Iterate(s)),
                                        !.stale = Cardinality(StaleNames(s))])
        /\ run' = NoRun
        /\ UNCHANGED <<now, cfg, salt, memo, lookups, callers>>

\* cache.bust()
Bust(s) ==
    \E b \in {bust(s, media[Place(s)])} :
        /\ media' = [media EXCEPT ![Place(s)] = b.tbl]
        /\ last' = Only(s, [Idle EXCEPT !.op = "bust", !.raised = b.exc,
                                        !.count = Cardinality(Iterate(s)),
                                        !.stale = Cardinality(StaleNames(s))])
        /\ run' = NoRun
        /\ UNCHANGED <<now, cfg, salt, memo, hits, misses, expires, lookups, callers>>

Next ==
    \/ Tick
    \/ \E s \in Stores, n \in Arguments, d \in 0..1 :
            \E f \in FunctionOutcomes(Positional(n)) \cup {NotInvoked} :
                Call(s, Positional(n), f, d)
    \/ \E s \in Stores, n \in Arguments : Probe(s, n)
    \/ \E s \in Stores : \E name \in Names(s) : Delete(s, name)
    \/ \E s \in Stores : Bust(s)

Spec == Init /\ [][Next]_vars

SpecMem == InitMem /\ [][Next]_vars

\* --------------------------------------------- the three backends side by side
\* The same callable wrapped once with each backend, with the same ttl.
InitEq ==
    \E ttl \in TTLs :
        Constructed((1 :> StoreConfig("DictCache", ttl, FALSE, <<"tests", "add_one_function">>))
                 @@ (2 :> StoreConfig("IOCache", ttl, FALSE, <<"tests", "add_one_function">>))
                 @@ (3 :> StoreConfig("SqliteCache", ttl, FALSE, <<"tests", "add_one_function">>)))

NextEq ==
    \/ Tick
    \/ \E n \in EqArguments, d \in 0..1 :
            \E f \in FunctionOutcomes(Positional(n)) \cup {NotInvoked} :
                CallAll(Positional(n), f, d)

SpecEq == InitEq /\ [][NextEq]_vars

\* ------------------------------------ two callables wrapped with one backend
\* cache.info(), list(cache) and len(cache): what a caller reads off the store.
Observe(s) ==
    \E i \in {info(s, media[Place(s)])} :
        /\ last' = Only(s, [Idle EXCEPT !.op = "info", !.count = i.size,
                                        !.stale = Cardinality(StaleNames(s))])
        /\ UNCHANGED <<now, media, cfg, salt, memo, hits, misses, expires, lookups, run, callers>>

\* Get attempts made on all the stores together.
RECURSIVE TotalLookups(_)
TotalLookups(S) ==
    IF S = {} THEN 0
    ELSE LET s == CHOOSE x \in S : TRUE IN lookups[s] + TotalLookups(S \ {s})

\* Two callables wrapped with the same backend class, a ttl of one clock
\* reading and the same (default) location.  The second callable is another function of the module, or a
\* callable that has the names of the first (a redefinition, a second lambda).
InitTwo ==
    \E b \in Backends, ident \in Identities :
        Constructed((1 :> StoreConfig(b, 1, FALSE, <<"tests", "add_one_function">>))
                 @@ (2 :> StoreConfig(b, 1, FALSE, ident)))

\* Both callables are called with the same argument.
TwoArguments == {1}

NextTwo ==
    \/ Tick
    \/ \E s \in Stores, n \in TwoArguments :
            \E f \in FunctionOutcomes(Positional(n)) \cup {NotInvoked} :
                /\ TotalLookups(Stores) < TwoMaxOps
                /\ Calls({s}, Positional(n), f, 0)
    \/ \E s \in Stores, n \in TwoArguments :
            /\ TotalLookups(Stores) < TwoMaxOps
            /\ lookups[s] < MaxOps
            /\ Probe(s, n)
    \/ \E s \in Stores : \E name \in Names(s) : Delete(s, name)
    \/ \E s \in Stores : Bust(s)
    \/ \E s \in Stores : Observe(s)

SpecTwo == InitTwo /\ [][NextTwo]_vars

\* ------------------------------------------ wrapped calls that interleave
\* Callers of one wrapped callable whose calls of returned(1) interleave: a
\* call is the lookup (the key and the_cache[key], lines 219-223), the
\* invocation of the function (225) and the set (226), and another caller may
\* run between any two of them.
RaceCallers == {1, 2}

RaceArgs == Positional(1)

\* A call that has not started.
Waiting ==
    [pc |-> "start", key |-> <<>>, got |-> "none", invoked |-> 0, f |-> "none",
     fvalue |-> PyNone, result |-> PyNone, raised |-> NoException, tset |-> 0, order |-> 0]

\* The callers whose set has executed.
Setters == {c \in DOMAIN callers : callers[c].order > 0}

\* key = the_cache.args_to_key(*args, **kwargs); result = the_cache[key]
RaceLookup(s, c) ==
    /\ callers[c].pc = "start"
    /\ \E key \in {args_to_key(s, RaceArgs)} :
        \E g \in {GenericCache_getitem(s, media[Place(s)], key, now)} :
            /\ memo' = [memo EXCEPT ![s] = MemoAfter(s, RaceArgs)]
            /\ hits' = [hits EXCEPT ![s] = g.hits]
            /\ misses' = [misses EXCEPT ![s] = g.misses]
            /\ expires' = [expires EXCEPT ![s] = g.expires]
            /\ lookups' = [lookups EXCEPT ![s] = @ + 1]
            /\ callers' = [callers EXCEPT ![c] =
                    [@ EXCEPT !.pc = IF g.got.exc = NoException THEN "done" ELSE "invoke",
                              !.key = key,
                              !.got = g.got.exc,
                              !.result = g.got.value]]
            /\ UNCHANGED <<now, media, cfg, salt, last, run>>

\* result = function(*args, **kwargs), which does f
RaceInvoke(s, c, f) ==
    /\ callers[c].pc = "invoke"
    /\ callers' = [callers EXCEPT ![c] =
            [@ EXCEPT !.pc = IF f.exc = NoException THEN "set" ELSE "done",
                      !.invoked = 1,
                      !.f = f.exc,
                      !.fvalue = f.value,
                      !.result = IF f.exc = NoException THEN f.value ELSE PyNone,
                      !.raised = IF f.exc \in {NoException, DontCacheException}
                                 THEN NoException ELSE f.exc]]
    /\ UNCHANGED <<now, media, cfg, salt, memo, hits, misses, expires, lookups, last, run>>

\* the set as a setdefault: an entry that is there stays.
RaceSet_if_absent(s, c) ==
    /\ callers[c].pc = "set"
    /\ media' = [media EXCEPT ![Place(s)] =
            IF Present(s, @, callers[c].key) THEN @
            ELSE setitem(s, @, callers[c].key, callers[c].result, now)]
    /\ callers' = [callers EXCEPT ![c] =
            [@ EXCEPT !.pc = "done", !.tset = now, !.order = Cardinality(Setters) + 1]]
    /\ UNCHANGED <<now, cfg, salt, memo, hits, misses, expires, lookups, last, run>>

\* the_cache[key] = result
RaceSet(s, c) ==
    /\ callers[c].pc = "set"
    /\ media' = [media EXCEPT ![Place(s)] =
            setitem(s, @, callers[c].key, callers[c].result, now)]
    /\ callers' = [callers EXCEPT ![c] =
            [@ EXCEPT !.pc = "done", !.tset = now, !.order = Cardinality(Setters) + 1]]
    /\ UNCHANGED <<now, cfg, salt, memo, hits, misses, expires, lookups, last, run>>

\* One callable wrapped with any backend and ttl, and two calls about to start.
InitRace ==
    \E b \in Backends, ttl \in TTLs :
        ConstructedWith(1 :> StoreConfig(b, ttl, FALSE, <<"tests", "add_one_function">>),
                        [c \in RaceCallers |-> Waiting])

NextRace ==
    \/ Tick
    \/ \E s \in Stores, c \in RaceCallers : RaceLookup(s, c)
    \/ \E s \in Stores, c \in RaceCallers : \E f \in FunctionOutcomes(RaceArgs) :
            RaceInvoke(s, c, f)
    \/ \E s \in Stores, c \in RaceCallers : RaceSet(s, c)

SpecRace == InitRace /\ [][NextRace]_vars

\* ------------------------------------------------------------------ claims
\* A get attempt was the latest operation on s.
IsGet(rec) == rec.op \in {"call", "probe"}

\* C1: within a run of wrapped calls of one store with identical arguments,
\* all at clock readings inside the TTL window of the first (computing) call,
\* every call returns the first result and the function has been invoked
\* once; a lookup that succeeds returns the stored value, invokes nothing and
\* writes nothing.
C1_Step ==
    \A s \in Stores :
        last'[s].op = "call" =>
            /\ (run'.s = s /\ run'.a = last'[s].a) =>
                    (last'[s].result = run'.first /\ run'.invoked = 1)
            /\ last'[s].got = NoException =>
                    /\ last'[s].invoked = 0
                    /\ media' = media
                    /\ last'[s].result = EntryOf(s, media[Place(s)], last'[s].name)[1]

C1_Determinism == [][C1_Step]_vars

\* A call inside the window of an earlier call is answered from the store with
\* a value the function would not necessarily return again.
C1_Witness ==
    /\ run.s = 1 /\ run.invoked = 1 /\ now < run.e
    /\ last[1].op = "call" /\ last[1].got = NoException /\ last[1].invoked = 0
    /\ last[1].a = run.a /\ last[1].result = PyInt(0)

\* C2: a wrapped call whose lookup raises CacheMiss or ExpiredKey invokes the
\* function once; when it returns r, r is stored under the derived key with
\* expiration = clock reading at the set + ttl and r is returned; CacheMiss
\* and ExpiredKey never reach the caller.
C2_MissComputesAndStores ==
    \A s \in Stores :
        last[s].op = "call" =>
            /\ last[s].raised \notin {CacheMissException, ExpiredKeyException}
            /\ last[s].name = HashArgs(salt[s], last[s].a)
            /\ last[s].got \in {CacheMissException, ExpiredKeyException} =>
                    last[s].invoked = 1
            /\ (last[s].invoked = 1 /\ last[s].f = NoException) =>
                    /\ last[s].result = last[s].fvalue
                    /\ last[s].raised = NoException
                    /\ Present(s, media[Place(s)], last[s].name)
                    /\ EntryOf(s, media[Place(s)], last[s].name)
                            = <<last[s].fvalue, now + cfg[s].ttl>>

\* An expired entry is recomputed and stored while the clock moved on.
C2_Witness ==
    /\ last[1].op = "call" /\ last[1].got = ExpiredKeyException
    /\ last[1].f = NoException /\ cfg[1].ttl = 1 /\ now = 2
    /\ EntryOf(1, media[Place(1)], last[1].name) = <<last[1].result, 3>>

\* C3: every get attempt (wrapped call or membership probe) adds exactly 1 to
\* exactly one of hits, misses, expires - hits when a value is returned, misses
\* when no entry is physically present, expires when an entry is present and
\* the get refuses it - no other step changes them, and their sum is the
\* number of get attempts made.
C3_Step ==
    \A s \in Stores :
        LET dh == hits'[s] - hits[s]
            dm == misses'[s] - misses[s]
            de == expires'[s] - expires[s]
            present == Present(s, media[Place(s)], last'[s].name)
        IN  IF lookups'[s] # lookups[s]
            THEN /\ IsGet(last'[s])
                 /\ {dh, dm, de} \subseteq {0, 1}
                 /\ dh + dm + de = 1
                 /\ dh = 1 <=> last'[s].got = NoException
                 /\ dm = 1 <=> ~present
                 /\ de = 1 <=> (present /\ last'[s].got = ExpiredKeyException)
            ELSE dh = 0 /\ dm = 0 /\ de = 0

C4_ZeroTtlNeverHits ==
    \A s \in Stores :
        (cfg[s].ttl = 0 /\ last[s].op = "call") =>
            /\ last[s].got # NoException
            /\ hits[s] = 0

\* C5 as stated: a get at clock reading now raises CacheMiss iff no entry is
\* present, ExpiredKey iff one is present with expiration <= now, and returns
\* the value iff one is present with expiration > now.  (Read off the gets
\* that leave the entries and the clock as they were.)
C5_GetOutcome ==
    \A s \in Stores :
        (IsGet(last[s]) /\ last[s].invoked = 0) =>
            LET present == Present(s, media[Place(s)], last[s].name)
                e == IF present THEN EntryOf(s, media[Place(s)], last[s].name)[2] ELSE 0
            IN  /\ last[s].got = CacheMissException <=> ~present
                /\ last[s].got = ExpiredKeyException <=> (present /\ e <= now)
                /\ last[s].got = NoException <=> (present /\ e > now)

\* C6: when the function raises DontCacheException the wrapper stores nothing
\* (the physically present entries are what they were), returns None and
\* raises nothing; of the store's configuration, salt and counters only misses
\* or expires changes, by one.
C6_Step ==
    \A s \in Stores :
        (last'[s].op = "call" /\ last'[s].f = DontCacheException) =>
            /\ media' = media
            /\ last'[s].result = PyNone
            /\ last'[s].raised = NoException
            /\ last'[s].invoked = 1
            /\ hits'[s] = hits[s]
            /\ misses'[s] + expires'[s] = misses[s] + expires[s] + 1
            /\ misses'[s] >= misses[s] /\ expires'[s] >= expires[s]
            /\ cfg' = cfg /\ salt' = salt

C6_DontCache == [][C6_Step]_vars

\* The function opts out while a stale entry lies under the key: it stays.
C6_Witness ==
    /\ last[1].op = "call" /\ last[1].f = DontCacheException
    /\ last[1].got = ExpiredKeyException
    /\ Present(1, media[Place(1)], last[1].name)

\* C7: any other failure of the function reaches the caller and leaves the
\* physically present entries as they were, so the next call with the same
\* arguments is again a miss or an expiry and invokes the function again.
C7_Step ==
    \A s \in Stores :
        /\ (last'[s].op = "call" /\ last'[s].f = OtherException) =>
                /\ last'[s].raised = OtherException
                /\ last'[s].invoked = 1
                /\ media' = media
        /\ (/\ last[s].op = "call" /\ last[s].f = OtherException
            /\ last'[s].op = "call" /\ last'[s].a = last[s].a) =>
                /\ last'[s].got \in {CacheMissException, ExpiredKeyException}
                /\ last'[s].invoked = 1

C7_FailurePropagates == [][C7_Step]_vars

\* A second failing call on a key that never got an entry.
C7_Witness ==
    /\ last[1].op = "call" /\ last[1].f = OtherException
    /\ last[1].raised = OtherException
    /\ misses[1] = 2 /\ lookups[1] = 2 /\ Size(1) = 0

\* C8 as stated: after set(k, v) iterate() yields a pair whose first component
\* is k; after delete(k) it yields none for k and get(k) is a miss; size()
\* is the number of pairs iterate() yields.
C8_IterationConsistency ==
    \A s \in Stores :
        /\ Size(s) = Cardinality(Iterate(s))
        /\ (last[s].op = "call" /\ last[s].invoked = 1 /\ last[s].f = NoException) =>
                \E p \in Iterate(s) : p[1] = last[s].name
        /\ (last[s].op = "delete" /\ \E a \in DOMAIN memo[s] : memo[s][a] = last[s].name) =>
                /\ ~ \E p \in Iterate(s) : p[1] = last[s].name
                /\ ~ Present(s, media[Place(s)], last[s].name)

\* C9: after bust() the store is empty and nothing was raised, whatever it
\* held (expired entries included) and also when it held nothing, as on a
\* second bust.
C9_Bust ==
    \A s \in Stores :
        last[s].op = "bust" =>
            /\ last[s].raised = NoException
            /\ Size(s) = 0
            /\ Iterate(s) = {}

\* A bust of two entries, one of them expired.
C9_Witness ==
    /\ last[1].op = "bust" /\ last[1].count = 2 /\ last[1].stale >= 1
    /\ Size(1) = 0

\* C10: the three backends, given the same wrapped calls at the same clock
\* readings from empty stores, return the same value (or raise the same) and
\* show the same hits, misses, expires and size after every call.
C10_BackendsAgree ==
    \A s, t \in Stores :
        /\ last[s].result = last[t].result
        /\ last[s].raised = last[t].raised
        /\ info(s, media[Place(s)]).hits = info(t, media[Place(t)]).hits
        /\ info(s, media[Place(s)]).misses = info(t, media[Place(t)]).misses
        /\ info(s, media[Place(s)]).expires = info(t, media[Place(t)]).expires
        /\ info(s, media[Place(s)]).size = info(t, media[Place(t)]).size

\* f(x) = x + 1 called with 1, 1, 2, 3: the last call returns 4, and every
\* backend holds three entries after 3 misses and 1 hit.
C10_Witness ==
    /\ Cardinality(Stores) = 3
    /\ \A s \in Stores :
        /\ last[s].op = "call" /\ last[s].a = Positional(3) /\ last[s].result = PyInt(4)
        /\ hits[s] = 1 /\ misses[s] = 3 /\ expires[s] = 0 /\ Size(s) = 3
        /\ \A n \in EqArguments :
                EntryOf(s, media[Place(s)], HashArgs(salt[s], Positional(n)))[1] = PyInt(n + 1)

\* C11 as stated: `n in cache` is true iff an entry is present under the key
\* derived from n with expiration > now (a live entry); the probe goes through
\* the get path: it is a hit when it answers true, a miss when no entry is
\* present, an expiry when the entry is stale (expiration <= now).  (A probe
\* leaves the entries and the clock as they were, so the state after it shows
\* what it found.)
C11_Contains ==
    \A s \in Stores :
        last[s].op = "probe" =>
            LET present == Present(s, media[Place(s)], last[s].name)
                e == IF present THEN EntryOf(s, media[Place(s)], last[s].name)[2] ELSE 0
                live == present /\ e > now
            IN  /\ last[s].name = HashArgs(salt[s], last[s].a)
                /\ last[s].result = <<"bool", live>>
                /\ last[s].got = NoException <=> live
                /\ last[s].got = CacheMissException <=> ~present
                /\ last[s].got = ExpiredKeyException <=> (present /\ ~live)

\* C12 as stated: a wrapped call (with its set), a delete or a bust on one
\* store leaves what every other store's size(), iterate() and get() return
\* as it was; bust() on one store never makes a get of another store a miss.
C12_Step ==
    \A s, o \in Stores :
        (s # o /\ last'[s].op \in {"call", "delete", "bust"}) =>
            /\ len(o, media'[Place(o)]) = len(o, media[Place(o)])
            /\ iter(o, media'[Place(o)]) = iter(o, media[Place(o)])
            /\ \A n \in TwoArguments :
                    getitem(o, media'[Place(o)], HashArgs(salt[o], Positional(n)), now)
                        = getitem(o, media[Place(o)], HashArgs(salt[o], Positional(n)), now)

C12_Ownership == [][C12_Step]_vars

\* C13 as stated: two distinct wrapped callables never derive the same key
\* from the same arguments, and a store never answers with a value it did not
\* store itself.
C13_DistinctCallables ==
    \A s, o \in Stores :
        s # o =>
            /\ \A n \in TwoArguments :
                    args_to_key(s, Positional(n)) # args_to_key(o, Positional(n))
            /\ hits[s] > 0 => misses[s] + expires[s] > 0

\* C13, amended: the salt of a store is the digest of the callable's (module
\* name, qualified name) pair and nothing else, and never changes; callables
\* whose pairs differ never derive the same key from the same arguments, and
\* then a store only answers with what it stored itself; callables with the
\* same pair derive the same keys; the key a store derives from given
\* arguments is the same at every call.
C13_Step ==
    /\ salt' = salt
    /\ \A s \in Stores : \A n \in TwoArguments :
            args_to_key(s, Positional(n))' = args_to_key(s, Positional(n))

C13_KeysByIdentity ==
    /\ [](\A s, o \in Stores :
            /\ salt[s] = InitSalt(cfg[s].ident)
            /\ \A n \in TwoArguments :
                    args_to_key(s, Positional(n)) = args_to_key(o, Positional(n))
                        <=> cfg[s].ident = cfg[o].ident
            /\ (s # o /\ cfg[s].ident # cfg[o].ident) =>
                    (hits[s] > 0 => misses[s] + expires[s] > 0))
    /\ [][C13_Step]_vars

\* Two callables of different names were called with the same argument: each
\* store missed and computed its own value, and the two entries lie under
\* different keys of the one place.
C13_Witness ==
    /\ cfg[1].ident # cfg[2].ident
    /\ misses[1] = 1 /\ misses[2] = 1 /\ last[2].op = "call"
    /\ Present(1, media[Place(1)], args_to_key(1, Positional(1)))
    /\ Present(2, media[Place(2)], args_to_key(2, Positional(1)))
    /\ EntryOf(1, media[Place(1)], args_to_key(1, Positional(1)))[1]
            # EntryOf(2, media[Place(2)], args_to_key(2, Positional(1)))[1]
    /\ Size(2) = 2

\* C14: a SqliteCache constructed with in_memory=True leaves its directory
\* as it found it: after construction and after any wrapped calls, probes,
\* deletes and busts the listing of tmpdir is empty, no database table lies
\* at tmpdir/.cache.sqlite, and the entries are in the private database.
C14_InMemoryIsolation ==
    \A s \in Stores :
        (cfg[s].backend = "SqliteCache" /\ cfg[s].in_memory) =>
            /\ DirectoryListing(cfg[s].tmpdir) = {}
            /\ media[<<"db", <<cfg[s].tmpdir, SqliteCache_filename>>>>] = <<>>
            /\ media[<<"dir", cfg[s].tmpdir>>] = <<>>
            /\ Size(s) = Cardinality(DOMAIN media[<<"mem", s>>])

\* The in-memory store holds two entries after a hit, two misses and the
\* delete of a name that was not there.
C14_Witness ==
    /\ cfg[1].backend = "SqliteCache" /\ cfg[1].in_memory
    /\ Size(1) = 2 /\ hits[1] = 1 /\ misses[1] = 2
    /\ last[1].op = "delete"

\* C15: expiration is lazy, in every backend.  A get that raises ExpiredKey
\* leaves the entry where it is; the entries change only in a delete, a bust
\* or the set of a wrapped call, and that set touches the entry of its key
\* only; size() and iterate() count every physically present entry, expired
\* or not, so an expired lookup followed by its recompute leaves size() as it
\* was.
C15_Step ==
    \A s \in Stores :
        LET tbl == media[Place(s)]
            after == media'[Place(s)]
            sets == /\ last'[s].op = "call" /\ last'[s].invoked = 1
                    /\ last'[s].f = NoException
        IN  /\ (IsGet(last'[s]) /\ last'[s].got = ExpiredKeyException) =>
                    /\ Present(s, tbl, last'[s].name)
                    /\ Present(s, after, last'[s].name)
                    /\ len(s, after) = len(s, tbl)
                    /\ ~sets => after = tbl
            /\ after # tbl => (last'[s].op \in {"delete", "bust"} \/ sets)
            /\ sets => \A n \in DOMAIN tbl :
                    (n \in DOMAIN after /\ after[n] # tbl[n]) =>
                        n \in {last'[s].name, key_to_filename(s, last'[s].name)}
            /\ sets => DOMAIN tbl \subseteq DOMAIN after

C15_LazyExpiration ==
    /\ [](\A s \in Stores :
            /\ Size(s) = Cardinality(DOMAIN media[Place(s)])
            /\ Cardinality(Iterate(s)) = Cardinality(DOMAIN media[Place(s)]))
    /\ [][C15_Step]_vars

\* An expired entry was looked up and recomputed while another expired entry
\* lies untouched: both are counted.
C15_Witness ==
    /\ last[1].op = "call" /\ last[1].got = ExpiredKeyException
    /\ last[1].invoked = 1 /\ last[1].f = NoException
    /\ Size(1) = 2 /\ Cardinality(StaleNames(1)) = 1
    /\ expires[1] = 1

\* C16: set overwrites.  In every reachable state iterate() yields at most one
\* pair per name and size() is the number of names; a wrapped call's set on a
\* key that has an entry leaves size() unchanged and leaves under the key the
\* new value with expiration = clock reading of this set + ttl; and a second
\* set(key, value) at the same clock reading changes nothing.
C16_Step ==
    \A s \in Stores :
        (/\ last'[s].op = "call" /\ last'[s].invoked = 1 /\ last'[s].f = NoException
         /\ Present(s, media[Place(s)], last'[s].name)) =>
            /\ len(s, media'[Place(s)]) = len(s, media[Place(s)])
            /\ EntryOf(s, media'[Place(s)], last'[s].name)
                    = <<last'[s].fvalue, now' + cfg[s].ttl>>

C16_SetOverwrites ==
    /\ [](\A s \in Stores :
            /\ Cardinality({p[1] : p \in Iterate(s)}) = Cardinality(Iterate(s))
            /\ Cardinality({p[1] : p \in Iterate(s)}) = Size(s)
            /\ \A n \in Arguments : \A v \in {PyInt(0), PyInt(n + 1), PyNone} :
                LET key == HashArgs(salt[s], Positional(n))
                    once == setitem(s, media[Place(s)], key, v, now)
                IN  /\ setitem(s, once, key, v, now) = once
                    /\ EntryOf(s, once, key) = <<v, now + cfg[s].ttl>>
                    /\ len(s, once) = IF Present(s, media[Place(s)], key)
                                      THEN Size(s) ELSE Size(s) + 1)
    /\ [][C16_Step]_vars

\* An expired entry was overwritten at a later clock reading, next to another
\* entry: still two entries, the new expiration under the key.
C16_Witness ==
    /\ last[1].op = "call" /\ last[1].got = ExpiredKeyException
    /\ last[1].invoked = 1 /\ last[1].f = NoException
    /\ cfg[1].ttl = 0 /\ now = 1 /\ Size(1) = 2
    /\ EntryOf(1, media[Place(1)], last[1].name) = <<last[1].fvalue, 1>>

\* C17 as stated: the delete of a key that has no physically present entry
\* has the same outcome in the three backends - a no-op in all, or the same
\* error in all - and leaves the entries of each as they were.
C17_DeleteAbsent ==
    \A n \in EqArguments : \A s, o \in Stores :
        LET ks == HashArgs(salt[s], Positional(n))
            ko == HashArgs(salt[o], Positional(n))
        IN  (~Present(s, media[Place(s)], ks) /\ ~Present(o, media[Place(o)], ko)) =>
                /\ delitem(s, media[Place(s)], ks).exc = delitem(o, media[Place(o)], ko).exc
                /\ delitem(s, media[Place(s)], ks).tbl = media[Place(s)]

\* C18: two callers interleave the steps lookup, invoke, set of wrapped calls
\* with the same arguments on an empty store.  Whatever the interleaving: the
\* counters add up to the lookups performed; a caller that invoked the
\* function returns the result of its own invocation (None when it opted out)
\* and a caller that hit returns a result some caller stored; once a set has
\* executed the store holds exactly one entry, under the key, with the value
\* and the expiration (clock reading of that set + ttl) of the set that
\* executed last, and before any set it holds none.
C18_LastWriteWins ==
    \A s \in Stores :
        /\ Attempts(s) = lookups[s]
        /\ lookups[s] = Cardinality({c \in DOMAIN callers : callers[c].pc # "start"})
        /\ \A c \in DOMAIN callers :
            /\ (callers[c].pc = "done" /\ callers[c].invoked = 1) =>
                    /\ callers[c].got \in {CacheMissException, ExpiredKeyException}
                    /\ callers[c].result =
                            IF callers[c].f = NoException THEN callers[c].fvalue ELSE PyNone
                    /\ callers[c].raised =
                            IF callers[c].f = OtherException THEN OtherException ELSE NoException
            /\ (callers[c].pc = "done" /\ callers[c].invoked = 0) =>
                    \E w \in Setters : callers[c].result = callers[w].result
        /\ Setters = {} => Size(s) = 0
        /\ Setters # {} =>
            LET w == CHOOSE x \in Setters : callers[x].order = Cardinality(Setters)
            IN  /\ Size(s) = 1
                /\ Present(s, media[Place(s)], HashArgs(salt[s], RaceArgs))
                /\ EntryOf(s, media[Place(s)], HashArgs(salt[s], RaceArgs))
                        = <<callers[w].result, callers[w].tset + cfg[s].ttl>>

\* Both callers missed, both invoked the function and got different results,
\* and both stored: caller 2 first, caller 1 at a later clock reading, and the
\* entry is caller 1's.
C18_Witness ==
    /\ DOMAIN callers = RaceCallers
    /\ \A c \in RaceCallers :
            /\ callers[c].pc = "done" /\ callers[c].got = CacheMissException
            /\ callers[c].invoked = 1 /\ callers[c].f = NoException
    /\ callers[1].result # callers[2].result
    /\ callers[1].order = 2 /\ callers[2].order = 1
    /\ callers[1].tset > callers[2].tset
    /\ misses[1] = 2 /\ hits[1] = 0 /\ Size(1) = 1
    /\ EntryOf(1, media[Place(1)], callers[1].key)[1] = callers[1].result

\* C19 as stated: for every store and every argument tuple - the positional
\* ones callers pass and the keywords (module=..., qualname=...) __init__
\* passed - args_to_key returns the digest of the tuple salted with the
\* store's salt, as a computation without the memo would; the salt is the one
\* computed at construction.
C19_MemoTransparent ==
    \A s \in Stores :
        /\ salt[s] = Utf8(HashArgs(EmptySalt, Keywords(cfg[s].ident)))
        /\ \A a \in {Positional(n) : n \in Arguments} \cup {Keywords(cfg[s].ident)} :
                args_to_key(s, a) = HashArgs(salt[s], a)

\* C20: the counters of a store move only in that store's own get attempts.
\* In every step no counter of any store decreases; a store whose counters
\* changed has just made a get attempt (a wrapped call or a probe), and the set
\* of that call adds nothing to the one increment of its lookup; a delete, a
\* bust or a reading of info(), iterate() and size() leaves them as they were,
\* and so does every operation on another store.
C20_Step ==
    \A s \in Stores :
        LET same == /\ hits'[s] = hits[s]
                    /\ misses'[s] = misses[s]
                    /\ expires'[s] = expires[s]
        IN  /\ hits'[s] >= hits[s]
            /\ misses'[s] >= misses[s]
            /\ expires'[s] >= expires[s]
            /\ ~same => /\ IsGet(last'[s])
                        /\ lookups'[s] = lookups[s] + 1
                        /\ hits'[s] + misses'[s] + expires'[s]
                                = hits[s] + misses[s] + expires[s] + 1
            /\ last'[s].op \in {"delete", "bust", "info"} => same
            /\ (\E o \in Stores \ {s} : last'[o].op # "none") => same

C20_CountersOwned == [][C20_Step]_vars

\* The other store's bust emptied the place both stores use; the counters of
\* store 1 still show its miss.
C20_Witness ==
    /\ Cardinality(Stores) = 2
    /\ last[2].op = "bust" /\ last[2].count = 1
    /\ misses[1] = 1 /\ hits[1] = 0 /\ expires[1] = 0 /\ lookups[1] = 1
    /\ lookups[2] = 0 /\ Attempts(2) = 0
    /\ Size(1) = 0

====
